---- MODULE Spec2Model ----
(***************************************************************************)
(* Model of typerpad (notes_typer/cli.py): a notes table in SQLite and the *)
(* four commands add, list, search and delete.  Every command is one       *)
(* process run: it opens a session, queries or changes the table, prints   *)
(* and exits.  Strings are sequences of one-character strings.             *)
(***************************************************************************)
EXTENDS Integers, Sequences, FiniteSets, TLC

\* ------------------------------------------------------------------ bounds
\* the clock ticks once per note stored and stops the model here
MaxClock == 3
\* longest search keyword tried
MaxKeyLen == 1

\* ------------------------------------------------------------------ inputs
\* characters the command line can carry; "%" and "_" are LIKE wildcards
Alphabet == {"a", "A", "%", "_"}

\* Optional[str]: None (SQL NULL in the row) or a string, which may be empty
None == [some |-> FALSE, str |-> <<>>]

Some(s) == [some |-> TRUE, str |-> s]

\* (title, text, tag) triples given to add
AddInputs ==
  { <<<<>>, <<"A", "b">>, None>>,
    <<<<"a">>, <<>>, Some(<<>>)>>,
    <<<<"b">>, <<"b", "_">>, Some(<<"a">>)>> }

\* tag filters given to list: none, the empty string, a tag in use, an unused one
TagFilters == {None, Some(<<>>), Some(<<"a">>), Some(<<"b">>)}

\* search keywords: every string over Alphabet up to MaxKeyLen
RECURSIVE StringsUpTo(_)
StringsUpTo(n) ==
  IF n = 0 THEN {<<>>}
  ELSE LET shorter == StringsUpTo(n - 1)
       IN  shorter \cup {Append(s, c) : s \in shorter, c \in Alphabet}

Keywords == StringsUpTo(MaxKeyLen)

\* ids given to delete: 0 and one past the largest id are never stored
DeleteIds == 0 .. (MaxClock + 1)

\* ------------------------------------------------------------------ strings
\* lower() of SQLite folds the ASCII letters
Lower(c) == IF c = "A" THEN "a" ELSE c

LowerStr(s) == [i \in 1 .. Len(s) |-> Lower(s[i])]

\* s[from .. Len(s)]
Tail2(s, from) == SubSeq(s, from, Len(s))

\* SQL LIKE: "%" matches any run of characters, "_" any one character
RECURSIVE Like(_, _)
Like(s, p) ==
  IF p = <<>> THEN s = <<>>
  ELSE IF Head(p) = "%"
       THEN \E k \in 0 .. Len(s) : Like(Tail2(s, k + 1), Tail(p))
       ELSE /\ s # <<>>
            /\ (Head(p) = "_" \/ Head(p) = Head(s))
            /\ Like(Tail(s), Tail(p))

\* Column.ilike(pattern) on SQLite: lower(column) LIKE lower(pattern)
ILike(s, p) == Like(LowerStr(s), LowerStr(p))

\* f"%{query}%"
SearchPattern(query) == <<"%">> \o query \o <<"%">>

\* keyword occurs in s as a literal substring
Contains(s, k) ==
  \E i \in 1 .. (Len(s) - Len(k) + 1) : SubSeq(s, i, i + Len(k) - 1) = k

\* ------------------------------------------------------------------ state
VARIABLES
  notes,     \* the rows of table "notes" in notes.db
  clock,     \* the wall clock datetime.now() reads
  cmd,       \* the command of the last process run and its arguments
  outcome,   \* how that run ended: "ok", "NoMatch", "NotFound", "StorageError"
  exitCode,  \* its process exit status
  newId,     \* the id add printed (0 when it printed none)
  listed,    \* the rows list fetched, in the order fetched
  found,     \* the rows search fetched
  session,   \* "closed" when the run called session.close(), else "open"
  txn,       \* "active" while the session holds an unfinished transaction
  assigned,  \* history: the ids add assigned, oldest first
  live       \* history: the rows added and not deleted since

vars == <<notes, clock, cmd, outcome, exitCode, newId, listed, found,
          session, txn, assigned, live>>

\* ------------------------------------------------------------------ table
Max(S) == CHOOSE x \in S : \A y \in S : y <= x

Ids(store) == {n.id : n \in store}

\* id = Column(Integer, primary_key=True): an alias of the SQLite rowid,
\* created without AUTOINCREMENT, so a new row gets the largest rowid in the
\* table plus one, and 1 in an empty table
NextRowid(store) == IF store = {} THEN 1 ELSE Max(Ids(store)) + 1

\* Note(title=title, text=text, tag=tag, created_at=datetime.now())
NewNote(id, title, text, tag, now) ==
  [id |-> id, title |-> title, text |-> text, tag |-> tag, created_at |-> now]

\* an add that also restamps the rows already stored
InsertNoteRestamping(store, note) ==
  {note} \cup {[n EXCEPT !.created_at = note.created_at] : n \in store}

\* session.add(note); session.commit()
InsertNote(store, note) == store \cup {note}

\* `if tag is not None:` in place of `if tag:`
TruthyIsNotNone(tag) == tag.some

\* `if tag:` is false for None and for the empty string
Truthy(tag) == tag.some /\ tag.str # <<>>

\* Note.tag == tag: a NULL column equals nothing
TagEquals(col, tag) == col.some /\ col.str = tag.str

\* session.query(Note), filtered by tag when `if tag:` holds
ListQuery(store, tag) ==
  IF Truthy(tag) THEN {n \in store : TagEquals(n.tag, tag)} ELSE store

\* order_by(Note.id.desc()).all()
RECURSIVE OrderByIdDesc(_)
OrderByIdDesc(rows) ==
  IF rows = {} THEN <<>>
  ELSE LET first == CHOOSE n \in rows : \A m \in rows : n.id >= m.id
       IN  <<first>> \o OrderByIdDesc(rows \ {first})

\* order_by(Note.id).all()
RECURSIVE OrderById(_)
OrderById(rows) ==
  IF rows = {} THEN <<>>
  ELSE LET first == CHOOSE n \in rows : \A m \in rows : n.id <= m.id
       IN  <<first>> \o OrderById(rows \ {first})

\* filter(Note.title.ilike(f"%{query}%") | Note.text.ilike(f"%{query}%"))
SearchQuery(store, query) ==
  {n \in store : \/ ILike(n.title, SearchPattern(query))
                 \/ ILike(n.text, SearchPattern(query))}

\* filter(Note.id <= note_id) in place of filter(Note.id == note_id)
FindByIdOrBelow(store, note_id) == {n \in store : n.id <= note_id}

\* session.query(Note).filter(Note.id == note_id).first(): the rows it can be
FindById(store, note_id) == {n \in store : n.id = note_id}

\* DELETE ... WHERE id >= note.id in place of WHERE id = note.id
DeleteNoteAndLater(store, note) == {n \in store : n.id < note.id}

\* session.delete(note); session.commit(): DELETE ... WHERE id = note.id
DeleteNote(store, note) == {n \in store : n.id # note.id}

\* ------------------------------------------------------------------ commands
NoArgs == [op |-> "none", title |-> <<>>, text |-> <<>>, tag |-> None,
           query |-> <<>>, note_id |-> 0]

\* an exception leaves the command before session.close(): the session stays
\* open with the transaction its first statement began, the interpreter prints
\* the traceback and exits 1
Raised ==
  /\ outcome' = "StorageError"
  /\ exitCode' = 1
  /\ session' = "open"
  /\ txn' = "active"

\* the command reached session.close() and then returned or raised typer.Exit()
Closed(how) ==
  /\ outcome' = how
  /\ exitCode' = 0
  /\ session' = "closed"
  /\ txn' = "none"

Init ==
  /\ notes = {}
  /\ clock = 0
  /\ cmd = NoArgs
  /\ outcome = "ok"
  /\ exitCode = 0
  /\ newId = 0
  /\ listed = <<>>
  /\ found = {}
  /\ session = "closed"
  /\ txn = "none"
  /\ assigned = <<>>
  /\ live = {}

\* add(title, text, tag), the commit succeeding
Add ==
  \E in \in AddInputs :
    LET note == NewNote(NextRowid(notes), in[1], in[2], in[3], clock)
    IN  /\ clock < MaxClock
        /\ clock' = clock + 1
        /\ cmd' = [NoArgs EXCEPT !.op = "add", !.title = in[1],
                                 !.text = in[2], !.tag = in[3]]
        /\ notes' = InsertNote(notes, note)
        /\ newId' = note.id
        /\ assigned' = Append(assigned, note.id)
        /\ live' = live \cup {note}
        /\ Closed("ok")
        /\ listed' = <<>>
        /\ found' = {}

\* add(title, text, tag), session.commit() raising
AddFails ==
  \E in \in AddInputs :
    /\ cmd' = [NoArgs EXCEPT !.op = "add", !.title = in[1],
                             !.text = in[2], !.tag = in[3]]
    /\ Raised
    /\ newId' = 0
    /\ listed' = <<>>
    /\ found' = {}
    /\ UNCHANGED <<notes, clock, assigned, live>>

\* list(tag)
List ==
  \E tag \in TagFilters :
    LET rows == OrderById(ListQuery(notes, tag))
    IN  /\ cmd' = [NoArgs EXCEPT !.op = "list", !.tag = tag]
        /\ listed' = rows
        /\ IF rows = <<>> THEN Closed("NoMatch") ELSE Closed("ok")
        /\ newId' = 0
        /\ found' = {}
        /\ UNCHANGED <<notes, clock, assigned, live>>

\* list(tag), the query raising
ListFails ==
  \E tag \in TagFilters :
    /\ cmd' = [NoArgs EXCEPT !.op = "list", !.tag = tag]
    /\ Raised
    /\ newId' = 0
    /\ listed' = <<>>
    /\ found' = {}
    /\ UNCHANGED <<notes, clock, assigned, live>>

\* search(query)
Search ==
  \E query \in Keywords :
    LET rows == SearchQuery(notes, query)
    IN  /\ cmd' = [NoArgs EXCEPT !.op = "search", !.query = query]
        /\ found' = rows
        /\ IF rows = {} THEN Closed("NoMatch") ELSE Closed("ok")
        /\ newId' = 0
        /\ listed' = <<>>
        /\ UNCHANGED <<notes, clock, assigned, live>>

\* search(query), the query raising
SearchFails ==
  \E query \in Keywords :
    /\ cmd' = [NoArgs EXCEPT !.op = "search", !.query = query]
    /\ Raised
    /\ newId' = 0
    /\ listed' = <<>>
    /\ found' = {}
    /\ UNCHANGED <<notes, clock, assigned, live>>

\* delete(note_id)
Delete ==
  \E note_id \in DeleteIds :
    LET hit == FindById(notes, note_id)
    IN  /\ cmd' = [NoArgs EXCEPT !.op = "delete", !.note_id = note_id]
        /\ IF hit = {}
           THEN /\ Closed("NotFound")
                /\ UNCHANGED <<notes, live>>
           ELSE \E note \in hit :
                  /\ notes' = DeleteNote(notes, note)
                  /\ live' = live \ {note}
                  /\ Closed("ok")
        /\ newId' = 0
        /\ listed' = <<>>
        /\ found' = {}
        /\ UNCHANGED <<clock, assigned>>

\* delete(note_id), the lookup or session.commit() raising
DeleteFails ==
  \E note_id \in DeleteIds :
    /\ cmd' = [NoArgs EXCEPT !.op = "delete", !.note_id = note_id]
    /\ Raised
    /\ newId' = 0
    /\ listed' = <<>>
    /\ found' = {}
    /\ UNCHANGED <<notes, clock, assigned, live>>

Next ==
  \/ Add
  \/ AddFails
  \/ List
  \/ ListFails
  \/ Search
  \/ SearchFails
  \/ Delete
  \/ DeleteFails

Spec == Init /\ [][Next]_vars

\* ------------------------------------------------------------------ properties
Range(seq) == {seq[i] : i \in DOMAIN seq}

\* the command of the last run got its answer from storage
Answered == outcome # "StorageError"

\* C1: the id each add assigns is strictly greater than the id every earlier
\* add assigned, deletes in between or not
C1_IdsStrictlyIncrease ==
  \A i, j \in DOMAIN assigned : i < j => assigned[i] < assigned[j]

C3_SearchIsLiteralSubstring ==
  (cmd.op = "search" /\ Answered) =>
    found = {n \in notes :
               \/ Contains(LowerStr(n.title), LowerStr(cmd.query))
               \/ Contains(LowerStr(n.text), LowerStr(cmd.query))}

\* C4: a run that succeeds or matches nothing exits 0, a delete of an id that
\* is not stored exits non-zero
C4_ExitStatusReflectsOutcome ==
  /\ outcome \in {"ok", "NoMatch"} => exitCode = 0
  /\ outcome = "NotFound" => exitCode # 0

\* list() with no filter
ListAll(store) == OrderById(ListQuery(store, None))

\* C5: delete of an id no stored note has signals NotFound and leaves the
\* store as it was: list() before equals list() after
C5_DeleteMissingLeavesStore ==
  [][(cmd'.op = "delete" /\ cmd'.note_id \notin Ids(notes)) =>
       /\ outcome' \in {"NotFound", "StorageError"}
       /\ notes' = notes
       /\ ListAll(notes') = ListAll(notes)]_vars

\* a delete missed while notes were stored
C5_Witness ==
  /\ cmd.op = "delete"
  /\ outcome = "NotFound"
  /\ cmd.note_id > 0
  /\ \E n \in notes : n.id > cmd.note_id

\* C6: delete of a stored id removes that note and no other: list() no longer
\* shows it and shows every other note with all its fields as before
C6_DeleteRemovesExactlyOne ==
  [][(cmd'.op = "delete" /\ cmd'.note_id \in Ids(notes) /\ outcome' # "StorageError") =>
       /\ outcome' = "ok"
       /\ \E gone \in notes :
            /\ gone.id = cmd'.note_id
            /\ gone \notin Range(ListAll(notes'))
            /\ Range(ListAll(notes')) = notes \ {gone}]_vars

\* a delete removed a note and left both an older and a newer one
C6_Witness ==
  /\ cmd.op = "delete"
  /\ outcome = "ok"
  /\ \E n \in notes : n.id < cmd.note_id
  /\ \E n \in notes : n.id > cmd.note_id

\* C7: list() with no filter returns exactly the notes added and not since
\* deleted, each once, in ascending order of id
C7_ListAllIsLiveAscending ==
  (cmd.op = "list" /\ ~cmd.tag.some /\ Answered) =>
    /\ Range(listed) = live
    /\ Len(listed) = Cardinality(live)
    /\ \A i, j \in DOMAIN listed : i < j => listed[i].id < listed[j].id

\* list() showed two notes after three adds and a delete
C7_Witness ==
  /\ cmd.op = "list"
  /\ ~cmd.tag.some
  /\ Len(listed) = 2
  /\ Len(assigned) = 3

\* C8: no stored note has an empty title
C8_NoEmptyTitleStored == \A n \in notes : n.title # <<>>

\* C9: an add creates one note and changes no other, list and search change
\* nothing, and a stored note keeps all its fields until it is deleted
C9_Frame ==
  [][/\ (cmd'.op = "add" /\ outcome' = "ok") =>
          /\ notes \subseteq notes'
          /\ Cardinality(notes') = Cardinality(notes) + 1
          /\ Cardinality(Ids(notes')) = Cardinality(notes')
     /\ (cmd'.op = "add" /\ outcome' # "ok") => notes' = notes
     /\ cmd'.op \in {"list", "search"} => notes' = notes
     /\ \A n \in notes :
          \/ n \in notes'
          \/ /\ cmd'.op = "delete"
             /\ cmd'.note_id = n.id
             /\ n.id \notin Ids(notes')]_vars

\* an add stored a third note next to two older ones
C9_Witness ==
  /\ cmd.op = "add"
  /\ outcome = "ok"
  /\ Cardinality(notes) = 3

\* C10: every run ends with its session closed and no transaction left open
C10_SessionReleased == session = "closed" /\ txn = "none"

====
